---- MODULE Spec2Model ----
(***************************************************************************)
(* tpom: replacing the time functions of the vDSO with user callbacks.     *)
(*                                                                         *)
(* The model follows src/src/lib.rs (curse_vdso, lift_curse_vdso, the four *)
(* trampolines and their callback slots) byte by byte on a small vDSO      *)
(* image, and src/src/auxv.rs (the auxiliary-vector reader) on a small     *)
(* word-addressed memory.                                                  *)
(*                                                                         *)
(* Environment assumptions: the calls of curse_vdso and lift_curse_vdso    *)
(* are serialized on one thread (the tests hold a mutex around them), no   *)
(* other thread executes a vDSO symbol while that thread is patching, and  *)
(* mprotect succeeds (its return value is ignored by the code).            *)
(***************************************************************************)
EXTENDS Integers, Sequences, FiniteSets, TLC

(***************************************************************************)
(* Bounds                                                                  *)
(***************************************************************************)
\* curse_vdso / lift_curse_vdso calls in one run
MaxOps == 3
\* reader threads spawned by a thread::scope
NReaders == 2
\* environment variables on the initial stack
MaxEnv == 2
\* setenv calls in one run
MaxSetenv == 2
\* words of other heap data modelled behind a relocated environ array
HeapTail == 3
\* the lengths asked of an opcode emitter: 0..MaxLen
MaxLen == 33
\* dynamic symbols in a symbol table
MaxSyms == 2
\* st_size of a dynamic symbol: 0..MaxStSize
MaxStSize == 8
\* bytes modelled behind the padded region of a patched symbol
PatchTail == 24
\* (key, value) pairs of an auxiliary vector, its terminator apart
MaxPairs == 3

(***************************************************************************)
(* Kinds, callbacks, trampolines                                           *)
(***************************************************************************)
None == "None"

\* the order of curse_vdso's parameters and of its four `if let` blocks
ArgOrder == <<"GetTime", "Time", "ClockGetRes", "GetTimeOfDay">>

Kinds == {ArgOrder[i] : i \in 1..4}

\* the callbacks the repository defines, by the value they return
\* (TimeSpec and TimeVal as <<seconds, nanos|micros>>, Time as <<t>>)
CbResult(cb) ==
    CASE cb = "frozen_1_1" -> <<1, 1>>
      [] cb = "myclock"    -> <<111, 333>>
      [] cb = "my_time"    -> <<666>>
      [] cb = "mygttod"    -> <<1, 3>>

\* the callbacks of each kind's function type
CbsOf(k) ==
    CASE k = "GetTime"      -> {"frozen_1_1", "myclock"}
      [] k = "ClockGetRes"  -> {"myclock"}
      [] k = "Time"         -> {"my_time"}
      [] k = "GetTimeOfDay" -> {"mygttod"}

NoArgs == [k \in Kinds |-> None]

\* one callback for every kind
AllArgs == [k \in Kinds |-> CHOOSE c \in CbsOf(k) : c # "frozen_1_1"]

\* the argument tuples of curse_vdso that are enumerated: all None, one
\* callback (as in the crate's example and tests), or all four
CurseArgs ==
    {NoArgs, AllArgs} \cup UNION {{[NoArgs EXCEPT ![k] = c] : c \in CbsOf(k)} : k \in Kinds}

Tramps == {"my_clockgettime", "my_time", "my_clockgetres", "my_gettimeofday"}

\* the trampoline curse_vdso maps a kind's symbols to
TrampOf(k) ==
    CASE k = "GetTime"      -> "my_clockgettime"
      [] k = "Time"         -> "my_time"
      [] k = "ClockGetRes"  -> "my_clockgetres"
      [] k = "GetTimeOfDay" -> "my_gettimeofday"

\* the callback slot a trampoline reads
SlotOf(f) ==
    CASE f = "my_clockgettime" -> "GetTime"
      [] f = "my_time"         -> "Time"
      [] f = "my_clockgetres"  -> "ClockGetRes"
      [] f = "my_gettimeofday" -> "GetTimeOfDay"

\* `my_xxx as *const () as u64`: a 64-bit address, as its eight base-256
\* digits, most significant first
TrampAddr(f) ==
    CASE f = "my_clockgettime" -> <<0, 0, 85, 208, 161, 178, 195, 64>>
      [] f = "my_time"         -> <<0, 0, 85, 208, 161, 178, 195, 96>>
      [] f = "my_clockgetres"  -> <<0, 0, 85, 208, 161, 178, 195, 128>>
      [] f = "my_gettimeofday" -> <<0, 0, 85, 208, 161, 178, 195, 160>>

\* the two symbol names curse_vdso inserts for a kind
NamesOf(k) ==
    CASE k = "GetTime"      -> {"clock_gettime", "__vdso_clock_gettime"}
      [] k = "Time"         -> {"time", "__vdso_time"}
      [] k = "ClockGetRes"  -> {"clock_getres", "__vdso_clock_getres"}
      [] k = "GetTimeOfDay" -> {"gettimeofday", "__vdso_gettimeofday"}

(***************************************************************************)
(* The vDSO image                                                          *)
(***************************************************************************)
\* The dynamic symbols of an x86-64 vDSO, in the order of the repository's
\* test image; offsets and sizes scaled down, functions 16-aligned.
DynSyms ==
    << [name |-> "clock_gettime",        st_value |-> 64, st_size |-> 5],
       [name |-> "__vdso_gettimeofday",  st_value |-> 16, st_size |-> 5],
       [name |-> "clock_getres",         st_value |-> 80, st_size |-> 16],
       [name |-> "__vdso_clock_getres",  st_value |-> 80, st_size |-> 16],
       [name |-> "gettimeofday",         st_value |-> 16, st_size |-> 5],
       [name |-> "__vdso_time",          st_value |-> 32, st_size |-> 20],
       [name |-> "time",                 st_value |-> 32, st_size |-> 20],
       [name |-> "__vdso_clock_gettime", st_value |-> 64, st_size |-> 5],
       [name |-> "__vdso_getcpu",        st_value |-> 96, st_size |-> 12],
       [name |-> "getcpu",               st_value |-> 96, st_size |-> 12] >>

\* the length of the mapping (range.end - range.start)
ImgLen == 112

\* the .text alignment of the image
TextAlign == 16

Max(a, b) == IF a >= b THEN a ELSE b

\* the symbol of a kind: the first dynamic symbol carrying its __vdso_ name
SymOfKind(k) ==
    LET i == CHOOSE i \in 1..Len(DynSyms) :
                 /\ DynSyms[i].name \in NamesOf(k)
                 /\ \A j \in 1..(i - 1) : DynSyms[j].name \notin NamesOf(k)
    IN DynSyms[i]

\* size rounded up to the .text alignment
PaddedSize(size) ==
    IF size % TextAlign = 0 THEN size ELSE size + (TextAlign - (size % TextAlign))

\* the bytes of the kernel's image (none of them a byte of the stub)
OrigByte(a) == 1 + (a % 31)

OrigImage == [i \in 1..ImgLen |-> OrigByte(i - 1)]

\* the byte of an image at an address relative to range.start
ByteAt(img, a) == img[a + 1]

\* an image with `bytes` copied to address a
WriteAt(img, a, bytes) ==
    [i \in 1..Len(img) |->
        IF i - 1 >= a /\ i - 1 < a + Len(bytes) THEN bytes[i - a] ELSE img[i]]

\* ((dst_address >> (8 * j)) & 0xFF) as u8
ShiftByte(dst, j) == dst[8 - j]

\* the twelve bytes `overwrite` writes one by one: MOV RAX, dst; JMP RAX
StubByte(dst, i) ==
    CASE i = 0 -> 72
      [] i = 1 -> 184
      [] i \in 2..9 -> ShiftByte(dst, i - 2)
      [] i = 10 -> 255
      [] i = 11 -> 224

\* a padding that forgets the twelve bytes of the stub
PaddingSize_whole(size) == Max(16, size)

\* let padding_size = std::cmp::max(16, size) - 12
PaddingSize(size) == Max(16, size) - 12

Nops(n) == [i \in 1..n |-> 144]

(***************************************************************************)
(* State                                                                   *)
(***************************************************************************)
Main == 0

Readers == 1..NReaders

Threads == {Main} \cup Readers

VARIABLES
    live,          \* the bytes of the vDSO mapping
    writable,      \* the mapping carries PROT_WRITE (the "w" of /proc/self/maps)
    BACKUP_VDSO,   \* static BACKUP_VDSO: Mutex<Vec<u8>>
    slot,          \* CLOCK_GT_CB, TIME_CB, CLOCK_RES_CB, CLOCK_GTOD_CB, by kind
    rw,            \* the RwLock of each slot: its read guards and its write guard
    aborted,       \* the process has died (a panic in an extern "C" fn, a fault)
    pc,            \* each thread's position
    loc,           \* each thread's call: arguments, locals, results
    args,          \* curse_vdso's arguments
    mapping,       \* curse_vdso's `mapping`: symbol name -> trampoline
    rng,           \* `r`: the Range read from /proc/self/maps (its writable flag)
    buf,           \* curse_vdso's `b`: the bytes read_vdso returned
    ki,            \* the `if let` block curse_vdso is at
    di,            \* the dynamic symbol mess_vdso is at
    wi,            \* the next byte `overwrite` writes
    todo,          \* the spawned readers that have not read yet
    ops,           \* history: curse_vdso and lift_curse_vdso calls so far
    lastOp,        \* history: the last of them that returned
    prevOp,        \* history: the one that returned before it
    lastArgs,      \* history: the arguments of the last curse_vdso that returned
    pre,           \* history: the mapping's bytes when curse_vdso was last called
    installed,     \* history: per kind, the callback installed since the last restore
    joined,        \* history: readers ran under the GetTime hook of the last curse_vdso
    stack,         \* the initial stack from envp[0]: envp, NULL, the auxiliary vector
    heap,          \* the heap from the environ array glibc allocated, if any
    environ,       \* the C global `environ`: the segment and index it points to
    nsets,         \* setenv calls so far
    auxRes,        \* the outcome of the last read_aux_vec
    elf,           \* what Elf::parse finds in the bytes of the mapping
    arch,          \* the target_arch the crate is built for
    target,        \* jmp_target: a 64-bit address
    symLen,        \* symbol_len, the length asked of the emitter
    emitO,         \* the outcome of opcodes.rs's generate_opcodes
    emitV,         \* the outcome of vdso.rs's vDSO::generate_opcodes
    shAlign,       \* sh_addralign of the image's .text section (0: no .text)
    stSize,        \* st_size of the symbol that is patched
    pmem,          \* the bytes from the patched symbol's address on
    rawSyms,       \* r.dynsyms: the image's dynamic symbol table
    dynOut         \* the outcome of vDSO::dynsyms

vars == <<live, writable, BACKUP_VDSO, slot, rw, aborted, pc, loc, args, mapping,
          rng, buf, ki, di, wi, todo, ops, lastOp, prevOp, lastArgs, pre, installed,
          joined, stack, heap, environ, nsets, auxRes, elf, arch, target, symLen,
          emitO, emitV, shAlign, stSize, pmem, rawSyms, dynOut>>

memVars == <<live, writable, BACKUP_VDSO>>
apiVars == <<args, mapping, rng, buf, ki, di, wi>>
histVars == <<ops, lastOp, prevOp, lastArgs, pre, installed, joined>>
auxVars == <<stack, heap, environ, nsets, auxRes>>
mainVars == <<memVars, slot, rw, aborted, pc, loc, apiVars, todo, histVars>>
emitVars == <<arch, target, symLen, emitO, emitV>>
patchVars == <<shAlign, stSize, pmem>>
dynVars == <<rawSyms, dynOut>>
sideVars == <<elf, emitVars, patchVars, dynVars>>

IdleLoc ==
    [call |-> "", kind |-> "", f |-> "", null |-> FALSE, cbv |-> None,
     res |-> <<>>, out |-> <<>>, ret |-> <<>>, via |-> ""]

UnlockedRw == [readers |-> {}, writer |-> FALSE]

\* auxiliary vector keys (libc) and this process's values
AT_NULL == 0
AT_PAGESZ == 6
AT_SYSINFO_EHDR == 33
PageSize == 4096
VdsoBase == 28672

\* the kernel's auxiliary vector, as words: key, value, ..., AT_NULL, 0
AuxVector == <<3, 64, AT_PAGESZ, PageSize, AT_SYSINFO_EHDR, VdsoBase, AT_NULL, 0>>

\* a pointer to an environment string (never null)
EnvStr == 1001

\* the stack the kernel builds: n environment pointers, NULL, the auxiliary vector
InitialStack(n) == [i \in 1..n |-> EnvStr] \o <<0>> \o AuxVector

AuxInit(n) ==
    /\ stack = InitialStack(n)
    /\ heap = <<>>
    /\ environ = [seg |-> "stack", at |-> 1]
    /\ nsets = 0
    /\ auxRes = [kind |-> "none"]

MainInit ==
    /\ live = OrigImage
    /\ writable = FALSE
    /\ BACKUP_VDSO = <<>>
    /\ slot = [k \in Kinds |-> None]
    /\ rw = [k \in Kinds |-> UnlockedRw]
    /\ aborted = FALSE
    /\ pc = [t \in Threads |-> "idle"]
    /\ loc = [t \in Threads |-> IdleLoc]
    /\ args = NoArgs
    /\ mapping = {}
    /\ rng = FALSE
    /\ buf = <<>>
    /\ ki = 0
    /\ di = 0
    /\ wi = 0
    /\ todo = {}
    /\ ops = 0
    /\ lastOp = "none"
    /\ prevOp = "none"
    /\ lastArgs = NoArgs
    /\ pre = OrigImage
    /\ installed = NoArgs
    /\ joined = FALSE

\* nothing emitted, parsed or patched yet
NoOut == [kind |-> "none"]

\* the build and the image of the runs that patch the x86-64 vDSO
PatchIdle ==
    /\ shAlign = TextAlign
    /\ stSize = 0
    /\ pmem = <<>>

DynIdle ==
    /\ rawSyms = <<>>
    /\ dynOut = NoOut

EmitIdle ==
    /\ arch = "x86_64"
    /\ target = TrampAddr("my_clockgettime")
    /\ symLen = 0
    /\ emitO = NoOut
    /\ emitV = NoOut

SideInit ==
    /\ elf = "ok"
    /\ EmitIdle
    /\ PatchIdle
    /\ DynIdle

Init == MainInit /\ AuxInit(1) /\ SideInit

(***************************************************************************)
(* curse_vdso                                                              *)
(***************************************************************************)
ApiIdle == ~aborted /\ pc[Main] = "idle"

\* the first `if let Some(g)` block at or after block i whose argument is Some
NextSome(a, i) ==
    IF \E j \in i..4 : a[ArgOrder[j]] # None
    THEN CHOOSE j \in i..4 : a[ArgOrder[j]] # None /\ \A h \in i..(j - 1) : a[ArgOrder[h]] = None
    ELSE 5

\* mapping.get(name)
MapHas(m, name) == \E e \in m : e.name = name

MapGet(m, name) == (CHOOSE e \in m : e.name = name).addr

\* the first dynamic symbol at or after index i whose name is in the mapping
NextMatch(m, i) ==
    IF \E j \in i..Len(DynSyms) : MapHas(m, DynSyms[j].name)
    THEN CHOOSE j \in i..Len(DynSyms) :
             /\ MapHas(m, DynSyms[j].name)
             /\ \A h \in i..(j - 1) : ~MapHas(m, DynSyms[h].name)
    ELSE Len(DynSyms) + 1

\* a block that forgets `*w = Some(g)`
SlotAfterSet_skip(old, g) == old

\* `*w = Some(g)`: the slot after the block of an argument
SlotAfterSet(old, g) == g

\* a block that inserts the names of every kind
MappingInsert_all(m, k) ==
    UNION {{[name |-> n, addr |-> TrampAddr(TrampOf(h))] : n \in NamesOf(h)} : h \in Kinds}

\* the entries a block inserts into the mapping
MappingInsert(m, k) ==
    {e \in m : e.name \notin NamesOf(k)}
        \cup {[name |-> n, addr |-> TrampAddr(TrampOf(k))] : n \in NamesOf(k)}

\* PROT_EXEC | PROT_WRITE | PROT_READ
ProtCurse == TRUE

\* read_vdso(&r): range.end - range.start bytes of /proc/self/mem at range.start
ReadVdso(mem) == SubSeq(mem, 1, ImgLen)

CallCurse(a) ==
    /\ ApiIdle
    /\ ops < MaxOps
    /\ args' = a
    /\ mapping' = {}
    /\ ki' = NextSome(a, 1)
    /\ pc' = [pc EXCEPT ![Main] = IF NextSome(a, 1) <= 4 THEN "c_lock" ELSE "c_range"]
    /\ ops' = ops + 1
    /\ pre' = live
    /\ joined' = FALSE
    /\ UNCHANGED <<memVars, slot, rw, aborted, loc, rng, buf, di, wi, todo,
                   lastOp, prevOp, lastArgs, installed>>
    /\ UNCHANGED <<auxVars, sideVars>>

\* XXX_CB.write().unwrap()
CurseLock ==
    /\ ~aborted
    /\ pc[Main] = "c_lock"
    /\ rw[ArgOrder[ki]].readers = {}
    /\ ~rw[ArgOrder[ki]].writer
    /\ rw' = [rw EXCEPT ![ArgOrder[ki]].writer = TRUE]
    /\ pc' = [pc EXCEPT ![Main] = "c_set"]
    /\ UNCHANGED <<memVars, slot, aborted, loc, apiVars, todo, histVars>>
    /\ UNCHANGED <<auxVars, sideVars>>

\* *w = Some(g); mapping.insert(...) twice; the guard drops at the block's end
CurseSet ==
    /\ ~aborted
    /\ pc[Main] = "c_set"
    /\ slot' = [slot EXCEPT ![ArgOrder[ki]] = SlotAfterSet(@, args[ArgOrder[ki]])]
    /\ mapping' = MappingInsert(mapping, ArgOrder[ki])
    /\ rw' = [rw EXCEPT ![ArgOrder[ki]].writer = FALSE]
    /\ ki' = NextSome(args, ki + 1)
    /\ pc' = [pc EXCEPT ![Main] = IF NextSome(args, ki + 1) <= 4 THEN "c_lock" ELSE "c_range"]
    /\ UNCHANGED <<memVars, aborted, loc, args, rng, buf, di, wi, todo, histVars>>
    /\ UNCHANGED <<auxVars, sideVars>>

\* let r = vdso_mem_range().unwrap()
CurseRange ==
    /\ ~aborted
    /\ pc[Main] = "c_range"
    /\ rng' = writable
    /\ pc' = [pc EXCEPT ![Main] = "c_mprotect"]
    /\ UNCHANGED <<memVars, slot, rw, aborted, loc, args, mapping, buf, ki, di, wi,
                   todo, histVars>>
    /\ UNCHANGED <<auxVars, sideVars>>

\* libc::mprotect(r.start, r.end - r.start, PROT_EXEC | PROT_WRITE | PROT_READ)
CurseMprotect ==
    /\ ~aborted
    /\ pc[Main] = "c_mprotect"
    /\ writable' = ProtCurse
    /\ pc' = [pc EXCEPT ![Main] = "c_read"]
    /\ UNCHANGED <<live, BACKUP_VDSO, slot, rw, aborted, loc, apiVars, todo, histVars>>
    /\ UNCHANGED <<auxVars, sideVars>>

\* let b = read_vdso(&r)
CurseRead ==
    /\ ~aborted
    /\ pc[Main] = "c_read"
    /\ buf' = ReadVdso(live)
    /\ pc' = [pc EXCEPT ![Main] = "c_clear"]
    /\ UNCHANGED <<memVars, slot, rw, aborted, loc, args, mapping, rng, ki, di, wi,
                   todo, histVars>>
    /\ UNCHANGED <<auxVars, sideVars>>

\* BACKUP_VDSO.lock().unwrap().clear()
CurseBackupClear ==
    /\ ~aborted
    /\ pc[Main] = "c_clear"
    /\ BACKUP_VDSO' = <<>>
    /\ pc' = [pc EXCEPT ![Main] = "c_append"]
    /\ UNCHANGED <<live, writable, slot, rw, aborted, loc, apiVars, todo, histVars>>
    /\ UNCHANGED <<auxVars, sideVars>>

\* BACKUP_VDSO.lock().unwrap().append(&mut b.clone())
CurseBackupAppend ==
    /\ ~aborted
    /\ pc[Main] = "c_append"
    /\ BACKUP_VDSO' = BACKUP_VDSO \o buf
    /\ pc' = [pc EXCEPT ![Main] = "c_parse"]
    /\ UNCHANGED <<live, writable, slot, rw, aborted, loc, apiVars, todo, histVars>>
    /\ UNCHANGED <<auxVars, sideVars>>

\* what curse_vdso leaves behind when it returns
CurseReturn ==
    /\ pc' = [pc EXCEPT ![Main] = "idle"]
    /\ args' = NoArgs
    /\ mapping' = {}
    /\ rng' = FALSE
    /\ buf' = <<>>
    /\ ki' = 0
    /\ di' = 0
    /\ wi' = 0
    /\ lastOp' = "curse"
    /\ prevOp' = lastOp
    /\ lastArgs' = args
    /\ installed' = [k \in Kinds |-> IF args[k] # None THEN args[k] ELSE installed[k]]
    /\ UNCHANGED <<ops, pre, joined>>

\* mess_vdso: Elf::parse(&buf).unwrap() (a panic on bytes that are no ELF
\* image), the PT_DYNAMIC assertion, the loop's first symbol; the section
\* headers are never looked at
MessParse ==
    /\ ~aborted
    /\ pc[Main] = "c_parse"
    /\ IF elf = "bad"
       THEN /\ pc' = [pc EXCEPT ![Main] = "panicked"]
            /\ UNCHANGED <<args, mapping, rng, buf, ki, di, wi, histVars>>
       ELSE IF NextMatch(mapping, 1) <= Len(DynSyms)
       THEN /\ di' = NextMatch(mapping, 1)
            /\ wi' = 0
            /\ pc' = [pc EXCEPT ![Main] = "c_write"]
            /\ UNCHANGED <<args, mapping, rng, buf, ki, histVars>>
       ELSE CurseReturn
    /\ UNCHANGED <<memVars, slot, rw, aborted, loc, todo>>
    /\ UNCHANGED <<auxVars, sideVars>>

\* overwrite: one std::ptr::write_bytes((addr + i) as *mut u8, byte, 1)
OverwriteByte ==
    /\ ~aborted
    /\ pc[Main] = "c_write"
    /\ wi < 12
    /\ live' = WriteAt(live, DynSyms[di].st_value + wi,
                        <<StubByte(MapGet(mapping, DynSyms[di].name), wi)>>)
    /\ wi' = wi + 1
    /\ UNCHANGED <<writable, BACKUP_VDSO, slot, rw, aborted, pc, loc, args, mapping,
                   rng, buf, ki, di, todo, histVars>>
    /\ UNCHANGED <<auxVars, sideVars>>

\* overwrite: write_bytes((addr + 12) as *mut u8, 0x90, padding_size); then
\* mess_vdso goes to the next symbol in the mapping, or returns
OverwritePad ==
    /\ ~aborted
    /\ pc[Main] = "c_write"
    /\ wi = 12
    /\ live' = WriteAt(live, DynSyms[di].st_value + 12, Nops(PaddingSize(DynSyms[di].st_size)))
    /\ IF NextMatch(mapping, di + 1) <= Len(DynSyms)
       THEN /\ di' = NextMatch(mapping, di + 1)
            /\ wi' = 0
            /\ UNCHANGED <<pc, args, mapping, rng, buf, ki, histVars>>
       ELSE CurseReturn
    /\ UNCHANGED <<writable, BACKUP_VDSO, slot, rw, aborted, loc, todo>>
    /\ UNCHANGED <<auxVars, sideVars>>

(***************************************************************************)
(* is_cursed                                                               *)
(***************************************************************************)
\* let r = vdso_mem_range().unwrap(); r.writable
is_cursed == writable

(***************************************************************************)
(* lift_curse_vdso                                                         *)
(***************************************************************************)
\* PROT_EXEC | PROT_READ
ProtLift == FALSE

\* a restore that only resets the protection
LiftCopyBytes_none(mem, b) == mem

\* std::ptr::copy_nonoverlapping(b.as_ptr(), r.start as *mut u8, b.len())
LiftCopyBytes(mem, b) == WriteAt(mem, 0, b)

LiftReturn ==
    /\ pc' = [pc EXCEPT ![Main] = "idle"]
    /\ rng' = FALSE
    /\ lastOp' = "lift"
    /\ prevOp' = lastOp
    /\ UNCHANGED <<ops, lastArgs, pre, installed, joined>>

CallLift ==
    /\ ApiIdle
    /\ ops < MaxOps
    /\ pc' = [pc EXCEPT ![Main] = "l_range"]
    /\ ops' = ops + 1
    /\ installed' = NoArgs
    /\ UNCHANGED <<memVars, slot, rw, aborted, loc, apiVars, todo, lastOp, prevOp,
                   lastArgs, pre, joined>>
    /\ UNCHANGED <<auxVars, sideVars>>

\* let r = vdso_mem_range().unwrap(); if !r.writable { return; }
LiftRange ==
    /\ ~aborted
    /\ pc[Main] = "l_range"
    /\ IF writable
       THEN /\ rng' = writable
            /\ pc' = [pc EXCEPT ![Main] = "l_backup"]
            /\ UNCHANGED histVars
       ELSE LiftReturn
    /\ UNCHANGED <<memVars, slot, rw, aborted, loc, args, mapping, buf, ki, di, wi, todo>>
    /\ UNCHANGED <<auxVars, sideVars>>

\* if let Ok(b) = BACKUP_VDSO.lock() { if b.len() == 0 { return; } ...
LiftBackup ==
    /\ ~aborted
    /\ pc[Main] = "l_backup"
    /\ IF Len(BACKUP_VDSO) = 0
       THEN LiftReturn
       ELSE /\ pc' = [pc EXCEPT ![Main] = "l_copy"]
            /\ UNCHANGED <<rng, histVars>>
    /\ UNCHANGED <<memVars, slot, rw, aborted, loc, args, mapping, buf, ki, di, wi, todo>>
    /\ UNCHANGED <<auxVars, sideVars>>

LiftCopy ==
    /\ ~aborted
    /\ pc[Main] = "l_copy"
    /\ live' = LiftCopyBytes(live, BACKUP_VDSO)
    /\ pc' = [pc EXCEPT ![Main] = "l_mprotect"]
    /\ UNCHANGED <<writable, BACKUP_VDSO, slot, rw, aborted, loc, apiVars, todo, histVars>>
    /\ UNCHANGED <<auxVars, sideVars>>

\* libc::mprotect(r.start, r.end - r.start, PROT_EXEC | PROT_READ)
LiftMprotect ==
    /\ ~aborted
    /\ pc[Main] = "l_mprotect"
    /\ writable' = ProtLift
    /\ LiftReturn
    /\ UNCHANGED <<live, BACKUP_VDSO, slot, rw, aborted, loc, args, mapping, buf, ki,
                   di, wi, todo>>
    /\ UNCHANGED <<auxVars, sideVars>>

(***************************************************************************)
(* Calls through the vDSO, and the trampolines                             *)
(***************************************************************************)
\* the symbol's own bytes are the kernel's
SymIsOrig(img, sym) ==
    \A i \in 0..(sym.st_size - 1) :
        ByteAt(img, sym.st_value + i) = OrigByte(sym.st_value + i)

\* the twelve bytes at an address are MOV RAX, imm64; JMP RAX
HasStub(img, a) ==
    /\ ByteAt(img, a) = 72
    /\ ByteAt(img, a + 1) = 184
    /\ ByteAt(img, a + 10) = 255
    /\ ByteAt(img, a + 11) = 224

\* the imm64 of the stub at an address (little-endian in memory)
StubTarget(img, a) == [j \in 1..8 |-> ByteAt(img, a + 10 - j)]

\* what the kernel's own function may write through the out-pointer
KernelValues(k) ==
    IF k = "Time" THEN {<<1700000000>>, <<666>>}
    ELSE {<<1700000000, 5>>, <<1, 1>>, <<111, 333>>}

\* what the kernel's own function returns
KernelRet(k, v) == IF k = "Time" THEN v ELSE <<0>>

\* the C return value of a trampoline
TrampRet(f, res) ==
    CASE f = "my_time" -> res
      [] f \in {"my_clockgettime", "my_clockgetres"} -> <<0>>
      [] f = "my_gettimeofday" -> <<>>

\* the trampoline gets to its slot: my_time always, the others inside
\* `if !ts.is_null()`
ReadsSlot(f, null) == f = "my_time" \/ ~null

\* a trampoline without its null check
StoresOut_always(f, null) == TRUE

\* the trampoline stores through its out-pointer: `if !t.is_null()` in my_time,
\* the enclosing `if !ts.is_null()` in the others
StoresOut(f, null) == ~null

MayCall(t) ==
    /\ ~aborted
    /\ pc[t] = "idle"
    /\ t \in Readers => t \in todo

\* a call of a kind's vDSO function, as libc makes it (SystemTime::now() is
\* clock_gettime with a non-null timespec; the readers of a scope do only that)
CallVdso(t, k, null) ==
    /\ MayCall(t)
    /\ t \in Readers => k = "GetTime"
    /\ k = "GetTime" => ~null
    /\ pc' = [pc EXCEPT ![t] = "exec"]
    /\ loc' = [loc EXCEPT ![t] = [IdleLoc EXCEPT !.call = "vdso", !.kind = k, !.null = null]]
    /\ todo' = todo \ {t}
    /\ UNCHANGED <<memVars, slot, rw, aborted, apiVars, histVars>>
    /\ UNCHANGED <<auxVars, sideVars>>

\* the CPU executes the bytes at the symbol: the kernel's function
ExecKernel(t) ==
    /\ ~aborted
    /\ pc[t] = "exec"
    /\ SymIsOrig(live, SymOfKind(loc[t].kind))
    /\ \E v \in KernelValues(loc[t].kind) :
          loc' = [loc EXCEPT ![t].via = "kernel",
                             ![t].out = IF loc[t].null THEN <<>> ELSE v,
                             ![t].ret = KernelRet(loc[t].kind, v)]
    /\ pc' = [pc EXCEPT ![t] = "done"]
    /\ UNCHANGED <<memVars, slot, rw, aborted, apiVars, todo, histVars>>
    /\ UNCHANGED <<auxVars, sideVars>>

\* the CPU executes the bytes at the symbol: a complete stub jumps to its
\* target; bytes that are neither the kernel's function nor a stub to a
\* trampoline are executed with an undefined outcome
ExecPatched(t) ==
    /\ ~aborted
    /\ pc[t] = "exec"
    /\ ~SymIsOrig(live, SymOfKind(loc[t].kind))
    /\ LET a == SymOfKind(loc[t].kind).st_value
           jumps == {f \in Tramps : HasStub(live, a) /\ StubTarget(live, a) = TrampAddr(f)}
       IN \E f \in (IF jumps # {} THEN jumps ELSE Tramps \cup {"fault"}) :
            IF f = "fault"
            THEN /\ aborted' = TRUE
                 /\ pc' = [pc EXCEPT ![t] = "crashed"]
                 /\ UNCHANGED loc
            ELSE /\ pc' = [pc EXCEPT ![t] = "tramp"]
                 /\ loc' = [loc EXCEPT ![t].f = f, ![t].via = "trampoline"]
                 /\ UNCHANGED aborted
    /\ UNCHANGED <<memVars, slot, rw, apiVars, todo, histVars>>
    /\ UNCHANGED <<auxVars, sideVars>>

\* a trampoline called as a function, with a null or a non-null out-pointer
CallDirect(f, null) ==
    /\ MayCall(Main)
    /\ pc' = [pc EXCEPT ![Main] = "tramp"]
    /\ loc' = [loc EXCEPT ![Main] = [IdleLoc EXCEPT !.call = "direct", !.f = f,
                                       !.null = null, !.via = "trampoline"]]
    /\ UNCHANGED <<memVars, slot, rw, aborted, apiVars, todo, histVars>>
    /\ UNCHANGED <<auxVars, sideVars>>

\* my_clockgettime, my_clockgetres, my_gettimeofday with a null pointer:
\* the `if` is skipped; return 0
TrampSkip(t) ==
    /\ ~aborted
    /\ pc[t] = "tramp"
    /\ ~ReadsSlot(loc[t].f, loc[t].null)
    /\ loc' = [loc EXCEPT ![t].ret = TrampRet(loc[t].f, <<>>)]
    /\ pc' = [pc EXCEPT ![t] = "done"]
    /\ UNCHANGED <<memVars, slot, rw, aborted, apiVars, todo, histVars>>
    /\ UNCHANGED <<auxVars, sideVars>>

\* XXX_CB.read().unwrap(): the shared lock is taken
TrampLock(t) ==
    /\ ~aborted
    /\ pc[t] = "tramp"
    /\ ReadsSlot(loc[t].f, loc[t].null)
    /\ ~rw[SlotOf(loc[t].f)].writer
    /\ rw' = [rw EXCEPT ![SlotOf(loc[t].f)].readers = @ \cup {t}]
    /\ pc' = [pc EXCEPT ![t] = "locked"]
    /\ UNCHANGED <<memVars, slot, aborted, loc, apiVars, todo, histVars>>
    /\ UNCHANGED <<auxVars, sideVars>>

\* .unwrap() of the slot's None: a panic in an extern "C" function
TrampPanic(t) ==
    /\ ~aborted
    /\ pc[t] = "locked"
    /\ slot[SlotOf(loc[t].f)] = None
    /\ aborted' = TRUE
    /\ pc' = [pc EXCEPT ![t] = "panicked"]
    /\ UNCHANGED <<memVars, slot, rw, loc, apiVars, todo, histVars>>
    /\ UNCHANGED <<auxVars, sideVars>>

\* .unwrap() of the slot's Some(cb), and the call of cb: the read guard is a
\* temporary of the `let res = ...;` statement and lives to its end
TrampCall(t) ==
    /\ ~aborted
    /\ pc[t] = "locked"
    /\ slot[SlotOf(loc[t].f)] # None
    /\ loc' = [loc EXCEPT ![t].cbv = slot[SlotOf(loc[t].f)]]
    /\ pc' = [pc EXCEPT ![t] = "in_cb"]
    /\ UNCHANGED <<memVars, slot, rw, aborted, apiVars, todo, histVars>>
    /\ UNCHANGED <<auxVars, sideVars>>

\* the callback returns; the statement ends and the read guard is dropped
CallbackReturn(t) ==
    /\ ~aborted
    /\ pc[t] = "in_cb"
    /\ loc' = [loc EXCEPT ![t].res = CbResult(loc[t].cbv)]
    /\ rw' = [rw EXCEPT ![SlotOf(loc[t].f)].readers = @ \ {t}]
    /\ pc' = [pc EXCEPT ![t] = "store"]
    /\ UNCHANGED <<memVars, slot, aborted, apiVars, todo, histVars>>
    /\ UNCHANGED <<auxVars, sideVars>>

\* the store through the out-pointer (a fault when it is null), and the return
TrampStore(t) ==
    /\ ~aborted
    /\ pc[t] = "store"
    /\ IF StoresOut(loc[t].f, loc[t].null)
       THEN IF loc[t].null
            THEN /\ aborted' = TRUE
                 /\ pc' = [pc EXCEPT ![t] = "crashed"]
                 /\ UNCHANGED loc
            ELSE /\ loc' = [loc EXCEPT ![t].out = loc[t].res,
                                        ![t].ret = TrampRet(loc[t].f, loc[t].res)]
                 /\ pc' = [pc EXCEPT ![t] = "done"]
                 /\ UNCHANGED aborted
       ELSE /\ loc' = [loc EXCEPT ![t].ret = TrampRet(loc[t].f, loc[t].res)]
            /\ pc' = [pc EXCEPT ![t] = "done"]
            /\ UNCHANGED aborted
    /\ UNCHANGED <<memVars, slot, rw, apiVars, todo, histVars>>
    /\ UNCHANGED <<auxVars, sideVars>>

\* the caller has its result and goes on
Return(t) ==
    /\ ~aborted
    /\ pc[t] = "done"
    /\ pc' = [pc EXCEPT ![t] = "idle"]
    /\ loc' = [loc EXCEPT ![t] = IdleLoc]
    /\ UNCHANGED <<memVars, slot, rw, aborted, apiVars, todo, histVars>>
    /\ UNCHANGED <<auxVars, sideVars>>

(***************************************************************************)
(* thread::scope: the readers                                              *)
(***************************************************************************)
\* thread::scope(|s| { for _ in 0..N { s.spawn(...) } })
Spawn ==
    /\ ApiIdle
    /\ todo' = Readers
    /\ pc' = [pc EXCEPT ![Main] = "scope"]
    /\ UNCHANGED <<memVars, slot, rw, aborted, loc, apiVars, histVars>>
    /\ UNCHANGED <<auxVars, sideVars>>

\* the scope ends when every spawned thread has finished
Join ==
    /\ ~aborted
    /\ pc[Main] = "scope"
    /\ todo = {}
    /\ \A t \in Readers : pc[t] = "idle"
    /\ pc' = [pc EXCEPT ![Main] = "idle"]
    /\ joined' = (installed["GetTime"] # None)
    /\ UNCHANGED <<memVars, slot, rw, aborted, loc, apiVars, todo, ops, lastOp, prevOp,
                   lastArgs, pre, installed>>
    /\ UNCHANGED <<auxVars, sideVars>>

Next ==
    \/ \E a \in CurseArgs : CallCurse(a)
    \/ CurseLock
    \/ CurseSet
    \/ CurseRange
    \/ CurseMprotect
    \/ CurseRead
    \/ CurseBackupClear
    \/ CurseBackupAppend
    \/ MessParse
    \/ OverwriteByte
    \/ OverwritePad
    \/ CallLift
    \/ LiftRange
    \/ LiftBackup
    \/ LiftCopy
    \/ LiftMprotect
    \/ Spawn
    \/ Join
    \/ \E f \in Tramps, null \in BOOLEAN : CallDirect(f, null)
    \/ \E t \in Threads :
          \/ \E k \in Kinds, null \in BOOLEAN : CallVdso(t, k, null)
          \/ ExecKernel(t)
          \/ ExecPatched(t)
          \/ TrampSkip(t)
          \/ TrampLock(t)
          \/ TrampPanic(t)
          \/ TrampCall(t)
          \/ CallbackReturn(t)
          \/ TrampStore(t)
          \/ Return(t)

Spec == Init /\ [][Next]_vars

(***************************************************************************)
(* The auxiliary-vector reader                                             *)
(***************************************************************************)
\* the memory a pointer's segment holds
Seg(p) == IF p.seg = "stack" THEN stack ELSE heap

\* the words that may lie behind a heap block
HeapWords == {0, AT_PAGESZ, AT_SYSINFO_EHDR, 5}

\* the environment pointers of the array environ points to
EnvEntries ==
    LET m == Seg(environ)
        n == CHOOSE n \in 0..Len(m) :
                 /\ m[environ.at + n] = 0
                 /\ \A j \in 0..(n - 1) : m[environ.at + j] # 0
    IN SubSeq(m, environ.at, environ.at + n - 1)

\* get_auxv_ptr: from environ to the null pointer, and one slot past it;
\* 0 when the walk leaves the memory that is mapped
RECURSIVE WalkEnv(_, _)
WalkEnv(m, i) ==
    IF i > Len(m) THEN 0
    ELSE IF m[i] = 0 THEN i + 1
    ELSE WalkEnv(m, i + 1)

\* read_aux_vec's loop and its final test
RECURSIVE ReadPairs(_, _, _, _)
ReadPairs(m, i, ptr, pagesize) ==
    IF i > Len(m) THEN [kind |-> "fault"]
    ELSE IF m[i] = AT_NULL
    THEN IF ptr = 0 \/ pagesize = 0
         THEN [kind |-> "panic"]
         ELSE [kind |-> "ok", vdso_base |-> ptr, page_size |-> pagesize]
    ELSE IF i + 1 > Len(m) THEN [kind |-> "fault"]
    ELSE ReadPairs(m, i + 2,
                   IF m[i] = AT_SYSINFO_EHDR THEN m[i + 1] ELSE ptr,
                   IF m[i] = AT_PAGESZ THEN m[i + 1] ELSE pagesize)

\* where get_auxv_ptr starts its walk
AuxvStart(env) == env

read_aux_vec ==
    LET m == Seg(AuxvStart(environ))
        out == WalkEnv(m, AuxvStart(environ).at)
    IN IF out = 0 THEN [kind |-> "fault"] ELSE ReadPairs(m, out, 0, 0)

\* std::env::set_var of a name that is not in the environment: glibc copies
\* the array to a fresh heap block with room for the new entry and points
\* environ at it; what lies behind the block is other heap data
SetenvNew ==
    /\ nsets < MaxSetenv
    /\ Len(EnvEntries) < MaxEnv + MaxSetenv
    /\ \E tail \in [1..HeapTail -> HeapWords] :
          heap' = EnvEntries \o <<EnvStr + 1, 0>> \o tail
    /\ environ' = [seg |-> "heap", at |-> 1]
    /\ nsets' = nsets + 1
    /\ UNCHANGED <<stack, auxRes>>
    /\ UNCHANGED <<mainVars, sideVars>>

\* std::env::set_var of a name that is in the environment: its entry is
\* replaced in place
SetenvReplace ==
    /\ nsets < MaxSetenv
    /\ \E j \in 0..(Len(EnvEntries) - 1) :
          IF environ.seg = "stack"
          THEN /\ stack' = [stack EXCEPT ![environ.at + j] = EnvStr + 2]
               /\ UNCHANGED heap
          ELSE /\ heap' = [heap EXCEPT ![environ.at + j] = EnvStr + 2]
               /\ UNCHANGED stack
    /\ nsets' = nsets + 1
    /\ UNCHANGED <<environ, auxRes>>
    /\ UNCHANGED <<mainVars, sideVars>>

ReadAuxVec ==
    /\ auxRes' = read_aux_vec
    /\ UNCHANGED <<stack, heap, environ, nsets>>
    /\ UNCHANGED <<mainVars, sideVars>>

InitAuxv == MainInit /\ SideInit /\ \E n \in 0..MaxEnv : AuxInit(n)

NextAuxv ==
    \/ SetenvNew
    \/ SetenvReplace
    \/ ReadAuxVec

SpecAuxv == InitAuxv /\ [][NextAuxv]_vars

(***************************************************************************)
(* The opcode emitters of opcodes.rs and vdso.rs                           *)
(***************************************************************************)
Archs == {"x86_64", "aarch64", "riscv64"}

\* jmp_target: the value of the emitters' tests (0x12ff34ff56ff78ff), and
\* addresses of trampolines
Targets ==
    {<<18, 255, 52, 255, 86, 255, 120, 255>>, TrampAddr("my_clockgettime"),
     TrampAddr("my_gettimeofday")}

\* usize::to_le_bytes: the least significant byte first
to_le_bytes(t) == [i \in 1..8 |-> ShiftByte(t, i - 1)]

\* usize::to_be_bytes: the most significant byte first
to_be_bytes(t) == [i \in 1..8 |-> ShiftByte(t, 8 - i)]

\* a returned Vec<u8>, and a panic
Bytes(b) == [kind |-> "ok", bytes |-> b]

Panicked == [kind |-> "panic"]

\* while symbol_len > opcodes.len() { opcodes.append(&mut nop.clone()); }
RECURSIVE PadWhile(_, _, _)
PadWhile(opcodes, nop, symbol_len) ==
    IF symbol_len > Len(opcodes)
    THEN PadWhile(opcodes \o nop, nop, symbol_len)
    ELSE opcodes

\* opcodes.rs: auipc t0,0; ld t1,12(t0); jr t1; the address; NOPs
generate_opcodes_riscv64(jmp_target, symbol_len) ==
    LET auipc_t0 == <<151, 2, 0, 0>>
        ld_t0_plus12 == <<3, 179, 194, 0>>
        jr == <<103, 0, 3, 0>>
        addr_bytes == to_le_bytes(jmp_target)
        nop == <<19, 0, 0, 0>>
    IN Bytes(PadWhile(auipc_t0 \o ld_t0_plus12 \o jr \o addr_bytes, nop, symbol_len))

\* opcodes.rs: ldr x0, .+8; br x0; the address; NOPs
generate_opcodes_aarch64(jmp_target, symbol_len) ==
    LET addr_bytes == to_le_bytes(jmp_target)
        ldr_x0_8 == <<64, 0, 0, 88>>
        br_x0 == <<0, 0, 31, 214>>
        nop == <<31, 32, 3, 213>>
    IN Bytes(PadWhile(ldr_x0_8 \o br_x0 \o addr_bytes, nop, symbol_len))

\* the assertion of the x86-64 emitter without its `=`
AssertLen_strict(symbol_len, len) == symbol_len > len

\* assert!(symbol_len >= opcodes.len())
AssertLen(symbol_len, len) == symbol_len >= len

\* opcodes.rs: mov rax, imm64; jmp rax; NOPs
generate_opcodes_x86_64(jmp_target, symbol_len) ==
    LET opcodes == <<72, 184>> \o to_le_bytes(jmp_target) \o <<255, 224>>
    IN IF AssertLen(symbol_len, Len(opcodes))
       THEN Bytes(opcodes \o [i \in 1..(symbol_len - Len(opcodes)) |-> 144])
       ELSE Panicked

\* opcodes.rs: generate_opcodes under #[cfg(target_arch = ..)]
generate_opcodes(a, jmp_target, symbol_len) ==
    CASE a = "riscv64" -> generate_opcodes_riscv64(jmp_target, symbol_len)
      [] a = "aarch64" -> generate_opcodes_aarch64(jmp_target, symbol_len)
      [] a = "x86_64"  -> generate_opcodes_x86_64(jmp_target, symbol_len)

\* a second half that takes the address bytes in their big-endian order
SecondHalf_be(addr_bytes) == <<addr_bytes[1], addr_bytes[2], addr_bytes[3], addr_bytes[4]>>

\* vec![addr_bytes[3], addr_bytes[2], addr_bytes[1], addr_bytes[0]]
SecondHalf(addr_bytes) == <<addr_bytes[4], addr_bytes[3], addr_bytes[2], addr_bytes[1]>>

\* vdso.rs: the address as the reversed halves of its big-endian bytes
vDSO_generate_opcodes_riscv64(jmp_target, symbol_len) ==
    LET auipc_t0 == <<151, 2, 0, 0>>
        ld_t0_plus12 == <<3, 179, 194, 0>>
        jr == <<103, 0, 3, 0>>
        addr_bytes == to_be_bytes(jmp_target)
        addr_first_half == <<addr_bytes[8], addr_bytes[7], addr_bytes[6], addr_bytes[5]>>
        addr_second_half == SecondHalf(addr_bytes)
        nop == <<19, 0, 0, 0>>
    IN Bytes(PadWhile(auipc_t0 \o ld_t0_plus12 \o jr \o addr_first_half \o addr_second_half,
                      nop, symbol_len))

\* vdso.rs: the address as its big-endian bytes reversed
vDSO_generate_opcodes_aarch64(jmp_target, symbol_len) ==
    LET a_bytes == to_be_bytes(jmp_target)
        addr_bytes == <<a_bytes[8], a_bytes[7], a_bytes[6], a_bytes[5],
                        a_bytes[4], a_bytes[3], a_bytes[2], a_bytes[1]>>
        ldr_x0_8 == <<64, 0, 0, 88>>
        br_x0 == <<0, 0, 31, 214>>
        nop == <<31, 32, 3, 213>>
    IN Bytes(PadWhile(ldr_x0_8 \o br_x0 \o addr_bytes, nop, symbol_len))

vDSO_generate_opcodes_x86_64(jmp_target, symbol_len) ==
    LET opcodes == <<72, 184>> \o to_le_bytes(jmp_target) \o <<255, 224>>
    IN IF AssertLen(symbol_len, Len(opcodes))
       THEN Bytes(opcodes \o [i \in 1..(symbol_len - Len(opcodes)) |-> 144])
       ELSE Panicked

\* vdso.rs: vDSO::generate_opcodes under #[cfg(target_arch = ..)]
vDSO_generate_opcodes(a, jmp_target, symbol_len) ==
    CASE a = "riscv64" -> vDSO_generate_opcodes_riscv64(jmp_target, symbol_len)
      [] a = "aarch64" -> vDSO_generate_opcodes_aarch64(jmp_target, symbol_len)
      [] a = "x86_64"  -> vDSO_generate_opcodes_x86_64(jmp_target, symbol_len)

\* a call of opcodes.rs's emitter
GenOpcodes ==
    /\ emitO = NoOut
    /\ emitO' = generate_opcodes(arch, target, symLen)
    /\ UNCHANGED <<arch, target, symLen, emitV>>
    /\ UNCHANGED <<mainVars, auxVars, elf, patchVars, dynVars>>

\* a call of vdso.rs's emitter
GenVdso ==
    /\ emitV = NoOut
    /\ emitV' = vDSO_generate_opcodes(arch, target, symLen)
    /\ UNCHANGED <<arch, target, symLen, emitO>>
    /\ UNCHANGED <<mainVars, auxVars, elf, patchVars, dynVars>>

\* every build, every target and every length up to MaxLen
InitOpcodes ==
    /\ MainInit
    /\ AuxInit(1)
    /\ elf = "ok"
    /\ arch \in Archs
    /\ target \in Targets
    /\ symLen \in 0..MaxLen
    /\ emitO = NoOut
    /\ emitV = NoOut
    /\ PatchIdle
    /\ DynIdle

NextOpcodes ==
    \/ GenOpcodes
    \/ GenVdso

SpecOpcodes == InitOpcodes /\ [][NextOpcodes]_vars

(***************************************************************************)
(* vDSO::dynsyms: the ELF inspector of vdso.rs                             *)
(***************************************************************************)
\* what the image can be: an ELF with a .text section, an ELF without one,
\* bytes Elf::parse rejects
ElfKinds == {"ok", "notext", "bad"}

\* sh_addralign of .text: RISC-V (compressed instructions), AArch64, x86-64
DynAligns == {2, 4, 16}

\* st_value of a dynamic symbol: 0 (undefined) or an address
SymValues == {0, 16}

\* the names the symbols carry
SymNames == {"__vdso_time", "time"}

\* the symbol tables: 1..MaxSyms symbols with st_size in 0..MaxStSize
RawSym == [name : SymNames, st_value : SymValues, st_size : 0..MaxStSize]

SymTables == UNION {[1..n -> RawSym] : n \in 1..MaxSyms}

\* `let mut align = 0;` and the loop over the section headers: align stays 0
\* when no SHT_PROGBITS section is named .text
AlignOf(e, a) == IF e = "notext" THEN 0 ELSE a

\* `let mut base = 0;` base = h.sh_addr - h.sh_offset; the vDSO's .text is
\* mapped at its file offset
BaseOf(e) == 0

\* a size that is always moved to the next multiple
SymSize_always(st_size, align) == st_size + (align - (st_size % align))

\* let symsize = if (ds.st_size % align) == 0 { ds.st_size }
\*               else { ds.st_size + (align - (ds.st_size % align)) }
SymSize(st_size, align) ==
    IF (st_size % align) = 0
    THEN st_size
    ELSE st_size + (align - (st_size % align))

\* the loop over r.dynsyms from symbol i on
RECURSIVE DynsymsFrom(_, _, _, _)
DynsymsFrom(syms, i, align, base) ==
    IF i > Len(syms) THEN <<>>
    ELSE IF syms[i].st_value = 0 THEN DynsymsFrom(syms, i + 1, align, base)
    ELSE <<[name |-> syms[i].name,
            address |-> syms[i].st_value - base,
            size |-> SymSize(syms[i].st_size, align)]>>
         \o DynsymsFrom(syms, i + 1, align, base)

\* vDSO::dynsyms: Elf::parse(..).expect("bad elf") panics on a bad image;
\* `ds.st_size % align` panics (division by zero) at the first symbol with a
\* value when align is 0
dynsyms(e, syms, a) ==
    IF e = "bad" THEN Panicked
    ELSE IF AlignOf(e, a) = 0 /\ \E i \in 1..Len(syms) : syms[i].st_value # 0
    THEN Panicked
    ELSE [kind |-> "ok",
          syms |-> IF AlignOf(e, a) = 0 THEN <<>>
                   ELSE DynsymsFrom(syms, 1, AlignOf(e, a), BaseOf(e))]

\* a call of vDSO::dynsyms on the image
CallDynsyms ==
    /\ dynOut = NoOut
    /\ dynOut' = dynsyms(elf, rawSyms, shAlign)
    /\ UNCHANGED <<rawSyms, shAlign, stSize, pmem, elf, emitVars>>
    /\ UNCHANGED <<mainVars, auxVars>>

\* every image: its kind, its .text alignment, its symbol table
InitDynsyms ==
    /\ MainInit
    /\ AuxInit(1)
    /\ EmitIdle
    /\ elf \in ElfKinds
    /\ shAlign \in DynAligns
    /\ rawSyms \in SymTables
    /\ dynOut = NoOut
    /\ stSize = 0
    /\ pmem = <<>>

NextDynsyms == CallDynsyms

SpecDynsyms == InitDynsyms /\ [][NextDynsyms]_vars

(***************************************************************************)
(* Patching one symbol: vDSO::overwrite of vdso.rs, overwrite of lib.rs    *)
(***************************************************************************)
\* the .text alignments of an architecture's vDSO
TextAligns(a) ==
    CASE a = "x86_64"  -> {16}
      [] a = "aarch64" -> {4, 16}
      [] a = "riscv64" -> {2, 4}

\* a byte of the unpatched memory at the symbol and behind it (no byte of a stub)
PatchOrig(i) == 200 + (i % 7)

\* the memory from the symbol's address on: its padded region, then what follows
PatchMem(st_size, align) ==
    [i \in 1..(SymSize(st_size, align) + PatchTail) |-> PatchOrig(i - 1)]

\* vDSO::overwrite(elf_offset, symbol_address, jmp_address, symbol_size), with
\* the size vDSO::dynsyms gives the symbol: every byte of the emitted opcodes
\* is written from the symbol's address on
VdsoOverwrite ==
    /\ emitV = NoOut
    /\ pmem = PatchMem(stSize, shAlign)
    /\ LET opcodes == vDSO_generate_opcodes(arch, target, SymSize(stSize, shAlign))
       IN /\ emitV' = opcodes
          /\ pmem' = IF opcodes.kind = "ok" THEN WriteAt(pmem, 0, opcodes.bytes) ELSE pmem
    /\ UNCHANGED <<arch, target, symLen, emitO, shAlign, stSize, elf, dynVars>>
    /\ UNCHANGED <<mainVars, auxVars>>

\* lib.rs's overwrite(range, ds.st_value, dst_addr, ds.st_size) of the x86-64
\* build: twelve bytes of stub and max(16, size) - 12 NOPs
LibOverwrite ==
    /\ arch = "x86_64"
    /\ emitV = NoOut
    /\ pmem = PatchMem(stSize, shAlign)
    /\ pmem' = WriteAt(WriteAt(pmem, 0, [i \in 1..12 |-> StubByte(target, i - 1)]),
                       12, Nops(PaddingSize(stSize)))
    /\ UNCHANGED <<emitVars, shAlign, stSize, elf, dynVars>>
    /\ UNCHANGED <<mainVars, auxVars>>

\* every build with its alignments, every target, every st_size up to MaxLen
InitPatch ==
    /\ MainInit
    /\ AuxInit(1)
    /\ DynIdle
    /\ elf = "ok"
    /\ arch \in Archs
    /\ target \in Targets
    /\ symLen = 0
    /\ emitO = NoOut
    /\ emitV = NoOut
    /\ shAlign \in TextAligns(arch)
    /\ stSize \in 0..MaxLen
    /\ pmem = PatchMem(stSize, shAlign)

NextPatch ==
    \/ VdsoOverwrite
    \/ LibOverwrite

SpecPatch == InitPatch /\ [][NextPatch]_vars

(***************************************************************************)
(* read_aux_vec on the auxiliary vectors a kernel may pass                 *)
(***************************************************************************)
\* the (key, value) pairs of an auxiliary vector: another key, the page size
\* and the vDSO header address, present with a value or with zero
AuxPairs ==
    {<<3, 64>>, <<AT_PAGESZ, PageSize>>, <<AT_PAGESZ, 0>>,
     <<AT_SYSINFO_EHDR, VdsoBase>>, <<AT_SYSINFO_EHDR, 0>>}

\* the words of a sequence of pairs
RECURSIVE PairWords(_)
PairWords(ps) == IF ps = <<>> THEN <<>> ELSE Head(ps) \o PairWords(Tail(ps))

\* the vectors of up to MaxPairs pairs, each ended by AT_NULL
AuxVectors ==
    {PairWords(ps) \o <<AT_NULL, 0>> : ps \in UNION {[1..n -> AuxPairs] : n \in 0..MaxPairs}}

\* process start with 0..MaxEnv environment variables and any such vector
InitAuxvKernel ==
    /\ MainInit
    /\ SideInit
    /\ \E n \in 0..MaxEnv, av \in AuxVectors :
          stack = [i \in 1..n |-> EnvStr] \o <<0>> \o av
    /\ heap = <<>>
    /\ environ = [seg |-> "stack", at |-> 1]
    /\ nsets = 0
    /\ auxRes = [kind |-> "none"]

NextAuxvKernel ==
    \/ SetenvReplace
    \/ ReadAuxVec

SpecAuxvKernel == InitAuxvKernel /\ [][NextAuxvKernel]_vars

(***************************************************************************)
(* Discovery: curse_vdso and vDSO::dynsyms on any image                    *)
(***************************************************************************)
\* the symbol tables of the images discovery is run on: one symbol, with or
\* without a value
DiscoveryTables ==
    {t \in SymTables : Len(t) = 1 /\ t[1].name = "__vdso_time" /\ t[1].st_size = MaxStSize}

\* a process whose vDSO mapping holds a good image, one without .text, or
\* bytes that are no ELF image
InitDiscovery ==
    /\ MainInit
    /\ AuxInit(1)
    /\ EmitIdle
    /\ PatchIdle
    /\ elf \in ElfKinds
    /\ rawSyms \in DiscoveryTables
    /\ dynOut = NoOut

NextDiscovery ==
    \/ \E a \in CurseArgs : CallCurse(a)
    \/ CurseLock
    \/ CurseSet
    \/ CurseRange
    \/ CurseMprotect
    \/ CurseRead
    \/ CurseBackupClear
    \/ CurseBackupAppend
    \/ MessParse
    \/ OverwriteByte
    \/ OverwritePad
    \/ CallDynsyms

SpecDiscovery == InitDiscovery /\ [][NextDiscovery]_vars

(***************************************************************************)
(* Properties                                                              *)
(***************************************************************************)
\* curse_vdso or lift_curse_vdso is running
InApi == pc[Main] \notin {"idle", "scope", "exec", "tramp", "locked", "in_cb", "store",
                          "done", "crashed", "panicked"}

\* the bytes of a kind's padded region [offset, offset + padded_size)
Region(img, k) ==
    SubSeq(img, SymOfKind(k).st_value + 1,
           SymOfKind(k).st_value + PaddedSize(SymOfKind(k).st_size))

\* some byte of the kind's region is not the kernel's: its stub has been
\* written, fully or partly
StubStarted(k) == Region(live, k) # Region(OrigImage, k)

\* C1: after curse_vdso(cb for a kind) followed by lift_curse_vdso, every byte
\* of the kind's padded region is the byte that was there when curse_vdso was
\* called.
C1_RoundTrip ==
    (~InApi /\ lastOp = "lift" /\ prevOp = "curse") =>
        \A k \in Kinds : lastArgs[k] # None => Region(live, k) = Region(pre, k)

C1_Witness ==
    /\ ~InApi /\ lastOp = "lift" /\ prevOp = "curse"
    /\ \E k \in Kinds : lastArgs[k] # None /\ Region(live, k) = Region(OrigImage, k)

\* C2: after lift_curse_vdso has returned the vDSO is the kernel's original
\* image, whatever curse_vdso calls went before, and the backup is never a
\* copy of a patched image.
C2_RestoresOriginal ==
    /\ (~InApi /\ lastOp = "lift") => live = OrigImage
    /\ BACKUP_VDSO \in {<<>>, OrigImage}

\* C3: while a GetTime hook is installed a clock read through the vDSO yields
\* the installed callback's value; once lift_curse_vdso has returned a clock
\* read reaches the kernel's function.
C3_HookEffective ==
    \A t \in Threads :
        (pc[t] = "done" /\ loc[t].call = "vdso" /\ loc[t].kind = "GetTime") =>
            /\ installed["GetTime"] # None =>
                   /\ loc[t].via = "trampoline"
                   /\ loc[t].out = CbResult(installed["GetTime"])
            /\ (installed["GetTime"] = None /\ lastOp = "lift") => loc[t].via = "kernel"

\* the first half of C3 alone
HookedReadsSeeCallback ==
    \A t \in Threads :
        (pc[t] = "done" /\ loc[t].call = "vdso" /\ installed[loc[t].kind] # None
             /\ ~loc[t].null) =>
            /\ loc[t].via = "trampoline"
            /\ loc[t].out = CbResult(installed[loc[t].kind])

\* C4: once curse_vdso has returned the mapping is not writable.
C4_BackToRX == (~InApi /\ lastOp = "curse") => ~writable

\* what the code does instead: writable from curse_vdso to lift_curse_vdso
WritableWhileCursed ==
    ~InApi => (writable <=> lastOp = "curse")

\* C5: in every state, also in the middle of curse_vdso, a kind whose stub has
\* been written fully or partly has its callback slot populated, and no step
\* sets a populated slot back to None.
C5_SlotBeforeStub ==
    /\ [](\A k \in Kinds : StubStarted(k) => slot[k] # None)
    /\ [][\A k \in Kinds : slot[k] # None => slot'[k] # None]_vars

C5_Witness ==
    /\ pc[Main] = "c_write"
    /\ wi = 1
    /\ \E k \in Kinds : StubStarted(k) /\ ~HasStub(live, SymOfKind(k).st_value)

\* C6: a trampoline invoked while its slot is unset never returns to its
\* caller, whatever its arguments.
C6_UnsetPanics ==
    \A t \in Threads :
        (pc[t] = "done" /\ loc[t].f # "") => slot[SlotOf(loc[t].f)] # None

\* C7: with its slot populated a trampoline called with a null out-pointer
\* returns without storing, my_clockgettime and my_clockgetres return 0,
\* my_time returns the callback's value; with a non-null pointer my_time
\* stores the callback's value and returns it.
C7_NullSafety ==
    \A t \in Threads :
        (loc[t].f # "" /\ slot[SlotOf(loc[t].f)] # None) =>
            /\ pc[t] \notin {"crashed", "panicked"}
            /\ (pc[t] = "done" /\ loc[t].null) =>
                   /\ loc[t].out = <<>>
                   /\ loc[t].f \in {"my_clockgettime", "my_clockgetres"} => loc[t].ret = <<0>>
                   /\ loc[t].f = "my_time" => loc[t].ret = CbResult(slot["Time"])
            /\ (pc[t] = "done" /\ ~loc[t].null /\ loc[t].f = "my_time") =>
                   /\ loc[t].out = CbResult(slot["Time"])
                   /\ loc[t].ret = loc[t].out

C7_Witness ==
    \E t \in Threads :
        /\ pc[t] = "done" /\ loc[t].null /\ loc[t].f = "my_time"
        /\ slot["Time"] # None

\* C8: no user callback runs while its thread holds a callback slot's lock.
C8_NoLockInCallback ==
    \A t \in Threads : pc[t] = "in_cb" => \A k \in Kinds : t \notin rw[k].readers

\* C9: with a GetTime hook installed before the readers start and restored
\* after they finished, no reader crashes and every reader sees the hook's
\* constant; a read after the restore reaches the kernel's function.
C9_ManyThreads ==
    /\ \A t \in Readers :
          installed["GetTime"] # None =>
              /\ pc[t] \notin {"crashed", "panicked"}
              /\ pc[t] = "done" => loc[t].out = CbResult(installed["GetTime"])
    /\ (joined /\ lastOp = "lift" /\ prevOp = "curse" /\ lastArgs["GetTime"] # None) =>
          \A t \in Threads :
              (pc[t] = "done" /\ loc[t].call = "vdso" /\ loc[t].kind = "GetTime") =>
                  loc[t].via = "kernel"

\* the readers' half of C9 alone
ReadersSeeConstant ==
    \A t \in Readers :
        installed["GetTime"] # None =>
            /\ pc[t] \notin {"crashed", "panicked"}
            /\ pc[t] = "done" => loc[t].out = CbResult(installed["GetTime"])

\* no reachable state executes bytes that are neither the kernel's function
\* nor a complete stub to a trampoline
NoTornExec ==
    \A t \in Threads :
        (pc[t] = "exec" /\ ~SymIsOrig(live, SymOfKind(loc[t].kind))) =>
            /\ HasStub(live, SymOfKind(loc[t].kind).st_value)
            /\ StubTarget(live, SymOfKind(loc[t].kind).st_value)
                  = TrampAddr(TrampOf(loc[t].kind))

\* C10: after any setenv calls read_aux_vec still returns the kernel's vDSO
\* base and page size.
C10_AfterSetenv ==
    auxRes.kind # "none" =>
        auxRes = [kind |-> "ok", vdso_base |-> VdsoBase, page_size |-> PageSize]

\* while environ still points into the initial stack the reader finds the
\* auxiliary vector
AuxvFoundOnStack ==
    (auxRes.kind # "none" /\ environ.seg = "stack") =>
        auxRes = [kind |-> "ok", vdso_base |-> VdsoBase, page_size |-> PageSize]

\* the length of an architecture's fixed stub
MinStub(a) ==
    CASE a = "x86_64"  -> 12
      [] a = "aarch64" -> 16
      [] a = "riscv64" -> 20

\* the fixed instructions that precede the address, and the NOP instruction
StubHead(a) ==
    CASE a = "x86_64"  -> <<72, 184>>
      [] a = "aarch64" -> <<64, 0, 0, 88, 0, 0, 31, 214>>
      [] a = "riscv64" -> <<151, 2, 0, 0, 3, 179, 194, 0, 103, 0, 3, 0>>

StubTail(a) == IF a = "x86_64" THEN <<255, 224>> ELSE <<>>

NopOf(a) ==
    CASE a = "x86_64"  -> <<144>>
      [] a = "aarch64" -> <<31, 32, 3, 213>>
      [] a = "riscv64" -> <<19, 0, 0, 0>>

\* b is the fixed stub for target t followed only by whole NOPs
Canonical(a, t, b) ==
    LET h == Len(StubHead(a))
        n == Len(NopOf(a))
    IN /\ Len(b) >= MinStub(a)
       /\ SubSeq(b, 1, h) = StubHead(a)
       /\ \A j \in 0..7 : b[h + 1 + j] = t[8 - j]
       /\ SubSeq(b, h + 9, MinStub(a)) = StubTail(a)
       /\ (Len(b) - MinStub(a)) % n = 0
       /\ \A i \in (MinStub(a) + 1)..Len(b) : b[i] = NopOf(a)[((i - MinStub(a) - 1) % n) + 1]

\* C11: for every target and every length not below the architecture's
\* minimum each emitter returns the fixed stub (x86-64: 48 B8, the target
\* little-endian, FF E0; AArch64: 40 00 00 58, 00 00 1F D6, the target;
\* RISC-V: 97 02 00 00, 03 B3 C2 00, 67 00 03 00, the target) followed only by
\* whole NOP instructions, and the emitters of opcodes.rs and of vdso.rs
\* return the same for every target and length.
C11_CanonicalForm ==
    /\ \A e \in {emitO, emitV} :
          (e.kind # "none" /\ symLen >= MinStub(arch)) =>
              /\ e.kind = "ok"
              /\ Canonical(arch, target, e.bytes)
              /\ Len(e.bytes) >= symLen
              /\ Len(e.bytes) < symLen + Len(NopOf(arch))
    /\ (emitO.kind # "none" /\ emitV.kind # "none") => emitO = emitV

C11_Witness ==
    /\ arch = "riscv64"
    /\ symLen = 32
    /\ target = <<18, 255, 52, 255, 86, 255, 120, 255>>
    /\ emitO.kind = "ok"
    /\ emitV.kind = "ok"
    /\ Len(emitV.bytes) = 32

WithValue(syms) == SelectSeq(syms, LAMBDA s : s.st_value # 0)

\* C14: every DynSym vDSO::dynsyms produces has as size the smallest multiple
\* of the .text alignment that is not below the symbol's st_size, and the
\* symbols whose st_value is zero produce no DynSym.
C14_Alignment ==
    dynOut.kind = "ok" =>
        LET kept == WithValue(rawSyms)
        IN /\ Len(dynOut.syms) = Len(kept)
           /\ \A i \in 1..Len(dynOut.syms) :
                 /\ dynOut.syms[i].name = kept[i].name
                 /\ dynOut.syms[i].address = kept[i].st_value
                 /\ dynOut.syms[i].size % shAlign = 0
                 /\ dynOut.syms[i].size >= kept[i].st_size
                 /\ dynOut.syms[i].size - kept[i].st_size < shAlign

C14_Witness ==
    /\ dynOut.kind = "ok"
    /\ shAlign = 16
    /\ Len(rawSyms) = 2
    /\ rawSyms[1].st_value = 0
    /\ rawSyms[2].st_value # 0
    /\ rawSyms[2].st_size = 5
    /\ Len(dynOut.syms) = 1
    /\ dynOut.syms[1].size = 16

\* C13: every stub the patcher emits for a symbol is exactly as long as the
\* symbol's padded size, and that padded size is at least the architecture's
\* minimum stub size.
C13_SlotFit ==
    emitV.kind = "ok" =>
        /\ Len(emitV.bytes) = SymSize(stSize, shAlign)
        /\ SymSize(stSize, shAlign) >= MinStub(arch)

\* what holds on x86-64 alone: the stub is exactly as long as the padded size
X86StubFits ==
    (arch = "x86_64" /\ emitV.kind = "ok") => Len(emitV.bytes) = SymSize(stSize, shAlign)

\* C19: patching a symbol changes no byte outside the symbol's padded region
\* [offset, offset + padded_size), whatever the symbol's size: the bytes that
\* follow the region are the bytes that were there.
C19_NoWriteOutside ==
    \A i \in 1..Len(pmem) :
        i > SymSize(stSize, shAlign) => pmem[i] = PatchOrig(i - 1)

\* what holds of lib.rs's overwrite and of the x86-64 emitter for a symbol
\* that has a size
X86PatchInRegion ==
    (arch = "x86_64" /\ stSize > 0) =>
        \A i \in 1..Len(pmem) :
            i > SymSize(stSize, shAlign) => pmem[i] = PatchOrig(i - 1)

\* C15: read_aux_vec returns Ok only with a non-zero vDSO header address and
\* a non-zero page size, and otherwise returns an error value to its caller:
\* it never ends in a panic.
C15_NoAuxvError ==
    /\ auxRes.kind \in {"none", "ok", "err"}
    /\ auxRes.kind = "ok" => (auxRes.vdso_base # 0 /\ auxRes.page_size # 0)

\* the half of C15 that holds: Ok carries two non-zero values
AuxOkHasBoth ==
    auxRes.kind = "ok" => (auxRes.vdso_base # 0 /\ auxRes.page_size # 0)

\* the names the vDSO documentation gives the time functions
PrefixedNames ==
    {"__vdso_clock_gettime", "__vdso_gettimeofday", "__vdso_clock_getres", "__vdso_time"}

\* C16: a stub is written only at symbols carrying a prefixed name; the
\* aliases clock_gettime, gettimeofday, clock_getres and time are never
\* selected for patching.
C16_OnlyPrefixedNames ==
    pc[Main] = "c_write" => DynSyms[di].name \in PrefixedNames

\* C16 as the code has it: a stub is written at every dynamic symbol that
\* carries the prefixed or the plain name of a kind whose callback was passed,
\* aliases included, and at no other symbol; it jumps to that kind's
\* trampoline.
C16_PatchesBothNames ==
    /\ pc[Main] = "c_write" =>
          \E k \in Kinds :
              /\ args[k] # None
              /\ DynSyms[di].name \in NamesOf(k)
              /\ MapGet(mapping, DynSyms[di].name) = TrampAddr(TrampOf(k))
    /\ (~InApi /\ lastOp = "curse") =>
          \A i \in 1..Len(DynSyms) :
              \A k \in Kinds :
                  (lastArgs[k] # None /\ DynSyms[i].name \in NamesOf(k)) =>
                      /\ HasStub(live, DynSyms[i].st_value)
                      /\ StubTarget(live, DynSyms[i].st_value) = TrampAddr(TrampOf(k))

C16_Witness ==
    /\ pc[Main] = "c_write"
    /\ wi = 12
    /\ DynSyms[di].name = "clock_gettime"
    /\ HasStub(live, DynSyms[di].st_value)

\* C17: between the calls is_cursed() is true exactly when the bytes of some
\* vDSO symbol differ from the kernel's (so it is false after
\* curse_vdso(None, None, None, None) and after lift_curse_vdso).
C17_IsCursedExact ==
    ~InApi =>
        (is_cursed <=> \E i \in 1..Len(DynSyms) : ~SymIsOrig(live, DynSyms[i]))

\* curse_vdso is running
InCurse ==
    pc[Main] \in {"c_lock", "c_set", "c_range", "c_mprotect", "c_read", "c_clear",
                  "c_append", "c_parse", "c_write"}

\* C18: no step of curse_vdso changes the callback slot or a byte of the
\* symbol of a kind whose argument is None, so when curse_vdso has returned
\* the region of every such kind is as it was at the call (with four None
\* arguments no symbol byte changes).
C18_NoneUntouched ==
    /\ [][\A k \in Kinds :
            (InCurse /\ args[k] = None) =>
                /\ slot'[k] = slot[k]
                /\ Region(live', k) = Region(live, k)]_vars
    /\ []((~InApi /\ lastOp = "curse") =>
            \A k \in Kinds : lastArgs[k] = None => Region(live, k) = Region(pre, k))

C18_Witness ==
    /\ ~InApi
    /\ lastOp = "curse"
    /\ lastArgs["GetTimeOfDay"] # None
    /\ lastArgs["Time"] = None
    /\ HasStub(live, SymOfKind("GetTimeOfDay").st_value)
    /\ Region(live, "Time") = Region(OrigImage, "Time")
    /\ slot["Time"] = None

\* C20: on an image that is no valid ELF or has no .text section, discovery
\* ends in an error value (no panic) and the live bytes, the protection of
\* the mapping and the backup stay as they were before the call.
C20_DiscoveryFailure ==
    elf # "ok" =>
        /\ pc[Main] # "panicked"
        /\ dynOut # Panicked
        /\ live = OrigImage
        /\ writable = FALSE
        /\ BACKUP_VDSO = <<>>

\* on a good image nothing of discovery panics
DiscoveryOkNoPanic ==
    elf = "ok" => (pc[Main] # "panicked" /\ dynOut # Panicked)

====
